---- MODULE Spec2Model ----
(***************************************************************************)
(* TeX-7 (ftplugin/tex_seven): the buffer registry of TeXSevenBase, the    *)
(* multi_file decorator and the BibTeX index of TeXSevenBibTeX, as a state *)
(* machine.  One action per method; a method that raises TeXSevenError (or *)
(* KeyError) is a step that records the error in `last'.                   *)
(***************************************************************************)
EXTENDS Integers, Sequences, FiniteSets, TLC

VARIABLES
  buffers,      \* TeXSevenBase.buffers: name -> bufinfo
  content,      \* the editor's text of every file, a sequence of lines
  listed,       \* names in vim.buffers
  loaded,       \* listed buffers whose text is loaded (readable from Python)
  _bibpaths,    \* TeXSevenBibTeX._bibpaths
  _bibentries,  \* TeXSevenBibTeX._bibentries
  bibfiles,     \* the .bib files that exist, in /p and in the TDS tree
  prev,         \* what the latest get_bibpaths call without update returned
  last,         \* the latest call: its arguments and its outcome
  _incpaths,    \* TeXSevenOmni._incpaths
  keyword,      \* TeXSevenOmni.keyword, a sequence of characters or None
  current_line  \* vim.current.line[:col], a sequence of characters

vars == <<buffers, content, listed, loaded, _bibpaths, _bibentries,
          bibfiles, prev, last, _incpaths, keyword, current_line>>

\* the state of TeXSevenOmni beyond that of TeXSevenBibTeX
omnivars == <<_incpaths, keyword, current_line>>

\* self.keyword = None; a word is a sequence of single characters
None == <<"None">>

(***************************************************************************)
(* Files.  Every document lives in the directory /p.                       *)
(***************************************************************************)
Dfile == "/p/d.tex"
Mfile == "/p/m.tex"
Xfile == "/p/x.tex"
Docs == {Dfile, Mfile, Xfile}

\* path.exists for the .tex files: gone.tex is the one that is not there
TexOnDisk == Docs

\* path.abspath(path.join(path.dirname(name), rel)): every document is in /p
AbsPath(name, rel) ==
  CASE rel = "m.tex" -> Mfile
    [] rel = "x.tex" -> Xfile
    [] rel = "d.tex" -> Dfile
    [] OTHER -> "/p/gone.tex"

(***************************************************************************)
(* Lines of a .tex buffer, by what the program's patterns see in them.     *)
(***************************************************************************)
Line(kind, args) == [kind |-> kind, args |-> args]
DocumentclassLine == Line("documentclass", <<>>)      \* \documentclass{article}
CommentLine == Line("comment", <<>>)                  \* % no \documentclass here
EmptyLine == Line("empty", <<>>)                      \* ""
ModelineLine(rel) == Line("modeline", <<rel>>)        \* % mainfile: rel
BibliographyLine(names) == Line("bibliography", names) \* \bibliography{n1,n2}
LabelLine(key) == Line("label", <<key>>)              \* \label{key}
IncludeLine(fname) == Line("include", <<fname>>)      \* \include{fname}
InputLine(fname) == Line("input", <<fname>>)          \* \input{fname}

\* find_master_file's default nlines
nlines == 3

Min(a, b) == IF a < b THEN a ELSE b
Max(a, b) == IF a > b THEN a ELSE b

\* vimbuffer[:], empty for a buffer that is listed (badd) but not loaded
BufferLines(name) == IF name \in loaded THEN content[name] ELSE <<>>

\* "\n".join(lines) is the empty string
JoinedIsEmpty(lines) == lines = <<>> \/ lines = <<EmptyLine>>

(***************************************************************************)
(* The outcome of a call: err is "" when the call returned.                *)
(***************************************************************************)
NoCall ==
  [op |-> "none", doc |-> "", err |-> "", arg |-> "", master |-> "",
   fresh |-> FALSE, badd |-> FALSE, update |-> FALSE, paths |-> {},
   entries |-> <<>>, dropped |-> <<>>, read |-> FALSE, asked |-> {},
   labels |-> <<>>, provider |-> "", caught |-> "", start |-> 0]

Call(op, doc) == [NoCall EXCEPT !.op = op, !.doc = doc]

(***************************************************************************)
(* TeXSevenBase                                                            *)
(***************************************************************************)
\* add_buffer with setdefault replaced by an assignment
add_buffer_overwrite(bufs, name) ==
  [n \in DOMAIN bufs \cup {name} |->
     IF n = name THEN [ft |-> "tex", master |-> "", buffer |-> name]
     ELSE bufs[n]]

add_buffer(bufs, name) ==
  IF name \in DOMAIN bufs THEN bufs
  ELSE [n \in DOMAIN bufs \cup {name} |->
          IF n = name THEN [ft |-> "tex", master |-> "", buffer |-> name]
          ELSE bufs[n]]

\* line.startswith('\\documentclass')
StartsWithDocumentclass(line) == line.kind = "documentclass"

\* regexp_modeline.search(line)
MatchesModeline(line) == line.kind = "modeline"

\* the modeline looked for in every line
EveryLine(lines) == lines

\* vimbuffer[:nlines] + vimbuffer[-nlines:]
BoundaryLines(lines) ==
  SubSeq(lines, 1, Min(nlines, Len(lines)))
    \o SubSeq(lines, Max(1, Len(lines) - nlines + 1), Len(lines))

Found(master) == [err |-> "", arg |-> "", master |-> master]
Raised(err, arg) == [err |-> err, arg |-> arg, master |-> ""]

\* the modeline taken at its word, without looking for the file
ModelineTargetUnchecked(name, rel) == Found(AbsPath(name, rel))

\* the body of the loop for the line that matched: path.exists(master_file)
ModelineTarget(name, rel) ==
  IF AbsPath(name, rel) \in TexOnDisk THEN Found(AbsPath(name, rel))
  ELSE Raised("INVALID_MODELINE", rel)

\* the loop over the lines b: the first modeline decides
FirstModeline(name, b, hits) ==
  IF hits = {} THEN Raised("NO_MODELINE", "")
  ELSE ModelineTarget(name, b[CHOOSE i \in hits : \A j \in hits : i <= j].args[1])

ModelineOutcome(name, b) ==
  FirstModeline(name, b, {i \in 1..Len(b) : MatchesModeline(b[i])})

\* find_master_file looking for the modeline before the \documentclass
find_master_file_modeline_first(name, lines) ==
  IF \E i \in 1..Len(BoundaryLines(lines)) : MatchesModeline(BoundaryLines(lines)[i])
  THEN ModelineOutcome(name, BoundaryLines(lines))
  ELSE IF \E i \in 1..Len(lines) : StartsWithDocumentclass(lines[i])
       THEN Found(name)
       ELSE Raised("NO_MODELINE", "")

find_master_file(name, lines) ==
  IF \E i \in 1..Len(lines) : StartsWithDocumentclass(lines[i])
  THEN Found(name)
  ELSE ModelineOutcome(name, BoundaryLines(lines))

\* the outcome of get_master_file and of multi_file
Outcome(err, arg, master, fresh, badd, bufs) ==
  [err |-> err, arg |-> arg, master |-> master, fresh |-> fresh,
   badd |-> badd, buffers |-> bufs]

\* masterinfo = self.buffers.get(master); masterinfo['master'] = master
MasterKnows(bufs, master) ==
  IF master \in DOMAIN bufs THEN [bufs EXCEPT ![master].master = master]
  ELSE bufs

\* get_master_file that records the document as its own master when
\* find_master_file raised
MemoizeFailure(bufs, name, f) ==
  IF f.err # ""
  THEN Outcome(f.err, f.arg, "", TRUE, FALSE,
               [bufs EXCEPT ![name].master = name])
  ELSE Outcome("", "", f.master, TRUE, FALSE,
               MasterKnows([bufs EXCEPT ![name].master = f.master], f.master))

\* get_master_file once find_master_file has returned or raised f
Memoize(bufs, name, f) ==
  IF f.err # "" THEN Outcome(f.err, f.arg, "", TRUE, FALSE, bufs)
  ELSE Outcome("", "", f.master, TRUE, FALSE,
               MasterKnows([bufs EXCEPT ![name].master = f.master], f.master))

get_master_file(bufs, name) ==
  IF name \notin DOMAIN bufs
  THEN Outcome("KeyError", name, "", FALSE, FALSE, bufs)
  ELSE IF bufs[name].master # ""
  THEN Outcome("", "", bufs[name].master, FALSE, FALSE, bufs)
  ELSE Memoize(bufs, name, find_master_file(name, BufferLines(name)))

\* the branch "Master is not loaded yet" building the registry anew around
\* the master
RegisterMasterAlone(bufs, master) ==
  [n \in {master} |-> [ft |-> "tex", master |-> master, buffer |-> master]]

\* the branch "Master is not loaded yet": badd, add_buffer(b), master = master
RegisterMaster(bufs, master) ==
  [add_buffer(bufs, master) EXCEPT ![master].master = master]

\* new_f once get_master_file has returned or raised g; master is the name of
\* the buffer f is called with
SwapBuffer(g) ==
  IF g.err # "" THEN g
  ELSE IF g.master \in DOMAIN g.buffers
  THEN [g EXCEPT !.master = g.buffers[g.master].buffer]
  ELSE [g EXCEPT !.badd = TRUE, !.buffers = RegisterMaster(g.buffers, g.master)]

\* multi_file.new_f up to the call of f
multi_file(bufs, name) == SwapBuffer(get_master_file(bufs, name))

\* the output files that exist: m.tex has been compiled, the others not
OutputOnDisk == {"/p/m.pdf"}

\* "{0}.{1}".format(output[:-len('.tex')], fmt)
OutputName(name) ==
  CASE name = Mfile -> "/p/m.pdf"
    [] name = Dfile -> "/p/d.pdf"
    [] OTHER -> "/p/x.pdf"


(***************************************************************************)
(* TeXSevenBibTeX                                                          *)
(***************************************************************************)
LocalRefs == "/p/refs.bib"
LocalExtra == "/p/extra.bib"
TdsRefs == "/tds/refs.bib"
TdsExtra == "/tds/extra.bib"

BibEntryLine(key) == Line("entry", <<key>>)       \* @article{key,

\* f.read() of a .bib file
BibText(fname) ==
  CASE fname = LocalRefs -> <<BibEntryLine("local20")>>
    [] fname = TdsRefs ->
         <<BibEntryLine("knuth84"), CommentLine, BibEntryLine("lamport94")>>
    [] fname = TdsExtra -> <<BibEntryLine("extra99")>>
    [] OTHER -> <<>>

\* re.findall('^@\w+ *{\s*([^, ]+) *,', text, re.M)
RECURSIVE FindEntries(_)
FindEntries(text) ==
  IF text = <<>> THEN <<>>
  ELSE IF Head(text).kind = "entry"
  THEN <<Head(text).args[1]>> \o FindEntries(Tail(text))
  ELSE FindEntries(Tail(text))

\* _bibparser that has the text of a file whether or not it can be opened
_bibparser_unguarded(files, fname) == FindEntries(BibText(fname))

\* _bibparser: [] on IOError
_bibparser(files, fname) ==
  IF fname \in files THEN FindEntries(BibText(fname)) ELSE <<>>

\* if not b.endswith('.bib'): b += '.bib'
WithBibExtension(b) ==
  CASE b = "refs" -> "refs.bib"
    [] b = "extra" -> "extra.bib"
    [] OTHER -> b

\* path.join(dirname, b), for a master in /p
InMasterDir(b) == IF b = "refs.bib" THEN LocalRefs ELSE LocalExtra

\* b = ( bibtemp if path.exists(bibtemp) else b )
KpsewhichArgument(files, b) ==
  IF InMasterDir(b) \in files THEN InMasterDir(b) ELSE b

\* kpsewhich -must-exist b: the path of an existing file as it is, a logical
\* name looked up in the TDS tree, "" when not found
kpsewhich(files, b) ==
  CASE b \in {LocalRefs, LocalExtra} -> IF b \in files THEN b ELSE ""
    [] b = "refs.bib" -> IF TdsRefs \in files THEN TdsRefs ELSE ""
    [] b = "extra.bib" -> IF TdsExtra \in files THEN TdsExtra ELSE ""
    [] OTHER -> ""

\* the outcome of get_bibpaths
BibOutcome(err, arg, ret, cache, read, asked) ==
  [err |-> err, arg |-> arg, ret |-> ret, cache |-> cache, read |-> read,
   asked |-> asked]

\* one pass of the loop over bibfiles, b with its extension
AddBibPath(acc, b, bibpath) ==
  IF bibpath # ""
  THEN [acc EXCEPT !.cache = @ \cup {bibpath}, !.ret = @ \cup {bibpath},
                   !.asked = @ \cup {b}]
  ELSE [acc EXCEPT !.err = "INVALID_BIBFILE", !.arg = b, !.ret = {},
                   !.asked = @ \cup {b}]

\* for b in bibfiles: ... ; the raise ends the loop
RECURSIVE BibLoop(_, _, _)
BibLoop(files, names, acc) ==
  IF names = <<>> \/ acc.err # "" THEN acc
  ELSE BibLoop(files, Tail(names),
               AddBibPath(acc,
                          KpsewhichArgument(files, WithBibExtension(Head(names))),
                          kpsewhich(files,
                            KpsewhichArgument(files, WithBibExtension(Head(names))))))

\* re.search(r'\\(?:bibliography|addbibresource){([^}]+)}', masterbuffer)
BibliographyMatches(lines) ==
  {i \in 1..Len(lines) : lines[i].kind = "bibliography"}

\* match.group(1).split(',') of the first match
FirstBibliography(lines) ==
  lines[CHOOSE i \in BibliographyMatches(lines) :
          \A j \in BibliographyMatches(lines) : i <= j].args

\* get_bibpaths that reads the master on every call
get_bibpaths_uncached(cache, lines, update, files) ==
  IF JoinedIsEmpty(lines)
  THEN BibOutcome("MASTER_NOT_ACTIVE", "", {}, cache, TRUE, {})
  ELSE IF BibliographyMatches(lines) = {}
  THEN BibOutcome("", "", {}, cache, TRUE, {})
  ELSE BibLoop(files, FirstBibliography(lines),
               BibOutcome("", "", cache, cache, TRUE, {}))

\* get_bibpaths of __init__.py: no bibliography in the master is an error
get_bibpaths_no_bibtex(cache, lines, update, files) ==
  IF cache # {} /\ ~update THEN BibOutcome("", "", cache, cache, FALSE, {})
  ELSE IF JoinedIsEmpty(lines)
  THEN BibOutcome("MASTER_NOT_ACTIVE", "", {}, cache, TRUE, {})
  ELSE IF BibliographyMatches(lines) = {}
  THEN BibOutcome("NO_BIBTEX", "", {}, cache, TRUE, {})
  ELSE BibLoop(files, FirstBibliography(lines),
               BibOutcome("", "", cache, cache, TRUE, {}))

\* the body of get_bibpaths, called with the lines of the master's buffer
get_bibpaths(cache, lines, update, files) ==
  IF cache # {} /\ ~update THEN BibOutcome("", "", cache, cache, FALSE, {})
  ELSE IF JoinedIsEmpty(lines)
  THEN BibOutcome("MASTER_NOT_ACTIVE", "", {}, cache, TRUE, {})
  ELSE IF BibliographyMatches(lines) = {}
  THEN BibOutcome("", "", {}, cache, TRUE, {})
  ELSE BibLoop(files, FirstBibliography(lines),
               BibOutcome("", "", cache, cache, TRUE, {}))

\* the orders in which list(self._bibpaths) can hold the paths
ListsOf(S) ==
  {l \in [1..Cardinality(S) -> S] : \A i, j \in DOMAIN l : l[i] = l[j] => i = j}

\* for b in bibpaths: self._bibentries += self._bibparser(b)
RECURSIVE ParseAll(_, _)
ParseAll(files, bibpaths) ==
  IF bibpaths = <<>> THEN <<>>
  ELSE _bibparser(files, Head(bibpaths)) \o ParseAll(files, Tail(bibpaths))

NoPrev == [valid |-> FALSE, paths |-> {}, again |-> FALSE]

(***************************************************************************)
(* Contents the editor can put in a buffer                                 *)
(***************************************************************************)
MaxLines == 2

\* the lines the user types into d.tex
RegistryLines ==
  {DocumentclassLine, CommentLine, ModelineLine("m.tex"),
   ModelineLine("gone.tex")}

SeqsUpTo(S, n) == UNION {[1..k -> S] : k \in 0..n}

\* what the user types into d.tex
RegistryContents == SeqsUpTo(RegistryLines, MaxLines)

\* m.tex as found on disk: a master, a chapter of x.tex, a chapter of d.tex,
\* or a fragment that names no master
MfileContents ==
  {<<DocumentclassLine>>, <<ModelineLine("x.tex")>>, <<ModelineLine("d.tex")>>,
   <<CommentLine>>}

(***************************************************************************)
(* Actions of the registry                                                 *)
(***************************************************************************)
bibvars == <<_bibpaths, _bibentries, bibfiles, prev>>

\* TeXSevenDocument.__init__ / add_buffer(vim.current.buffer)
AddBuffer(name) ==
  /\ name \in loaded
  /\ buffers' = add_buffer(buffers, name)
  /\ last' = Call("add_buffer", name)
  /\ UNCHANGED <<content, listed, loaded, bibvars>>
  /\ UNCHANGED omnivars

\* get_master_file(vim.current.buffer)
GetMasterFileStep(name, g) ==
  /\ buffers' = g.buffers
  /\ last' = [Call("get_master_file", name) EXCEPT
                !.err = g.err, !.arg = g.arg, !.master = g.master,
                !.fresh = g.fresh]

GetMasterFile(name) ==
  /\ name \in loaded
  /\ GetMasterFileStep(name, get_master_file(buffers, name))
  /\ UNCHANGED <<content, listed, loaded, bibvars>>
  /\ UNCHANGED omnivars

\* get_master_output called with the buffer `master'
get_master_output(master) ==
  IF OutputName(master) \in OutputOnDisk THEN Found(master)
  ELSE Raised("NO_OUTPUT", OutputName(master))

\* the effects of new_f, found in w, before f runs
Swapped(w) ==
  /\ buffers' = w.buffers
  /\ listed' = IF w.badd THEN listed \cup {w.master} ELSE listed

GetMasterOutputStep(name, w, f) ==
  /\ Swapped(w)
  /\ last' = [Call("get_master_output", name) EXCEPT
                !.err = IF w.err # "" THEN w.err ELSE f.err,
                !.arg = IF w.err # "" THEN w.arg ELSE f.arg,
                !.master = w.master, !.fresh = w.fresh, !.badd = w.badd]

\* TeXSevenDocument.get_master_output(vim.current.buffer), under multi_file
GetMasterOutput(name) ==
  /\ name \in loaded
  /\ GetMasterOutputStep(name, multi_file(buffers, name),
                         get_master_output(multi_file(buffers, name).master))
  /\ UNCHANGED <<content, loaded, bibvars>>
  /\ UNCHANGED omnivars

\* the user edits d.tex
EditBuffer(lines) ==
  /\ Dfile \in loaded
  /\ content[Dfile] # lines
  /\ content' = [content EXCEPT ![Dfile] = lines]
  /\ last' = Call("edit", Dfile)
  /\ UNCHANGED <<buffers, listed, loaded, bibvars>>
  /\ UNCHANGED omnivars

Init ==
  /\ buffers = <<>>
  /\ \E d \in RegistryContents, m \in MfileContents :
       content = [n \in Docs |->
                    IF n = Dfile THEN d
                    ELSE IF n = Mfile THEN m ELSE <<DocumentclassLine>>]
  /\ listed = Docs
  /\ loaded = Docs
  /\ _bibpaths = {}
  /\ _bibentries = <<>>
  /\ bibfiles = {TdsRefs}
  /\ prev = NoPrev
  /\ last = NoCall
  /\ _incpaths = {}
  /\ keyword = None
  /\ current_line = <<>>

Next ==
  \/ \E name \in Docs : AddBuffer(name)
  \/ \E name \in Docs : GetMasterFile(name)
  \/ \E name \in Docs : GetMasterOutput(name)
  \/ \E lines \in RegistryContents : EditBuffer(lines)

Spec == Init /\ [][Next]_vars

(***************************************************************************)
(* Actions of the BibTeX index                                             *)
(***************************************************************************)
\* the text of m.tex in the editor: no bibliography, one, or several files,
\* or two directives
BibContents ==
  {<<DocumentclassLine>>,
   <<DocumentclassLine, BibliographyLine(<<"refs">>)>>,
   <<DocumentclassLine, BibliographyLine(<<"extra">>)>>,
   <<DocumentclassLine, BibliographyLine(<<"refs.bib", "extra">>)>>,
   <<DocumentclassLine, BibliographyLine(<<"refs">>),
     BibliographyLine(<<"extra">>)>>}

\* the .bib files that come and go; /tds/refs.bib is always there
ChangingBibFiles == {LocalRefs, TdsExtra}

\* the lists of paths a caller hands to update
ExplicitBibpaths == {{LocalExtra, TdsRefs}}

\* the buffers the user works in when the index is called
BibCallers == {Dfile, Mfile}

\* the record of a call that went through multi_file (w) into get_bibpaths (r)
BibCall(op, name, update, w, r) ==
  [Call(op, name) EXCEPT
     !.err = IF w.err # "" THEN w.err ELSE r.err,
     !.arg = IF w.err # "" THEN w.arg
             ELSE IF r.err = "MASTER_NOT_ACTIVE" THEN w.master ELSE r.arg,
     !.master = w.master, !.fresh = w.fresh, !.badd = w.badd,
     !.update = update,
     !.paths = IF w.err # "" THEN {} ELSE r.ret,
     !.read = w.err = "" /\ r.read,
     !.asked = IF w.err # "" THEN {} ELSE r.asked]

\* what the call leaves in prev: the set returned without update, and whether
\* the call before it returned without update too
Returned(update, w, r) ==
  IF w.err = "" /\ r.err = "" /\ ~update
  THEN [valid |-> TRUE, paths |-> r.ret, again |-> prev.valid] ELSE NoPrev

\* get_bibpaths under multi_file: w is the outcome of new_f, r of the body
BibpathsEffects(update, w, r) ==
  /\ Swapped(w)
  /\ _bibpaths' = IF w.err # "" THEN _bibpaths ELSE r.cache
  /\ prev' = Returned(update, w, r)

GetBibpathsStep(name, update, w, r) ==
  /\ BibpathsEffects(update, w, r)
  /\ last' = BibCall("get_bibpaths", name, update, w, r)

GetBibpaths(name, update) ==
  /\ name \in loaded
  /\ GetBibpathsStep(name, update, multi_file(buffers, name),
       get_bibpaths(_bibpaths, BufferLines(multi_file(buffers, name).master),
                    update, bibfiles))
  /\ UNCHANGED <<content, loaded, _bibentries, bibfiles>>
  /\ UNCHANGED omnivars

\* get_bibentries with the cache empty: get_bibpaths, then the parsing loop
FillBibentries(name, w, r) ==
  /\ BibpathsEffects(FALSE, w, r)
  /\ IF w.err # "" \/ r.err # ""
     THEN /\ _bibentries' = _bibentries
          /\ last' = BibCall("get_bibentries", name, FALSE, w, r)
     ELSE \E bibpaths \in ListsOf(r.ret) :
            /\ _bibentries' = _bibentries \o ParseAll(bibfiles, bibpaths)
            /\ last' = [BibCall("get_bibentries", name, FALSE, w, r) EXCEPT
                          !.entries = _bibentries']

\* get_bibentries that parses the files on every call
GetBibentriesUncached(name) ==
  /\ name \in loaded
  /\ FillBibentries(name, multi_file(buffers, name),
       get_bibpaths(_bibpaths, BufferLines(multi_file(buffers, name).master),
                    FALSE, bibfiles))
  /\ UNCHANGED <<content, loaded, bibfiles>>
  /\ UNCHANGED omnivars

\* get_bibentries, with vim.current.buffer = name
GetBibentries(name) ==
  /\ name \in loaded
  /\ IF _bibentries # <<>>
     THEN /\ last' = [Call("get_bibentries", name) EXCEPT
                        !.entries = _bibentries]
          /\ UNCHANGED <<buffers, listed, _bibpaths, _bibentries, prev>>
     ELSE FillBibentries(name, multi_file(buffers, name),
            get_bibpaths(_bibpaths,
                         BufferLines(multi_file(buffers, name).master),
                         FALSE, bibfiles))
  /\ UNCHANGED <<content, loaded, bibfiles>>
  /\ UNCHANGED omnivars

\* update that leaves the paths in the cache
KeptBibpaths(cache) == cache

\* self._bibpaths.clear()
ClearedBibpaths(cache) == {}

\* TeXSevenBibTeX.update of TeXSeven.py, with vim.current.buffer = name
UpdateStep(name, w, r) ==
  /\ Swapped(w)
  /\ _bibentries' = <<>>
  /\ _bibpaths' = IF w.err # "" THEN ClearedBibpaths(_bibpaths) ELSE r.cache
  /\ prev' = NoPrev
  /\ last' = [BibCall("update", name, TRUE, w, r) EXCEPT
                !.dropped = _bibentries]

Update(name) ==
  /\ name \in loaded
  /\ UpdateStep(name, multi_file(buffers, name),
       get_bibpaths(ClearedBibpaths(_bibpaths),
                    BufferLines(multi_file(buffers, name).master), TRUE,
                    bibfiles))
  /\ UNCHANGED <<content, loaded, bibfiles>>
  /\ UNCHANGED omnivars

\* update(bibpaths) that adds the paths to the cache without clearing it
update_bibpaths_keeping(cache, bibpaths) == cache \cup bibpaths

\* TeXSevenBibTeX.update(bibpaths) of __init__.py, bibpaths not empty: the
\* path cache it leaves
update_bibpaths(cache, bibpaths) == bibpaths

UpdateBibpaths(bibpaths) ==
  /\ bibpaths # {}
  /\ _bibentries' = <<>>
  /\ _bibpaths' = update_bibpaths(_bibpaths, bibpaths)
  /\ prev' = NoPrev
  /\ last' = [Call("update_bibpaths", "") EXCEPT !.paths = bibpaths,
                                                 !.update = TRUE]
  /\ UNCHANGED <<buffers, content, listed, loaded, bibfiles>>
  /\ UNCHANGED omnivars

\* the user opens m.tex in the editor
LoadMaster ==
  /\ Mfile \notin loaded
  /\ loaded' = loaded \cup {Mfile}
  /\ listed' = listed \cup {Mfile}
  /\ last' = Call("load", Mfile)
  /\ UNCHANGED <<buffers, content, bibvars>>
  /\ UNCHANGED omnivars

\* the user edits m.tex
EditMaster(lines) ==
  /\ Mfile \in loaded
  /\ content[Mfile] # lines
  /\ content' = [content EXCEPT ![Mfile] = lines]
  /\ last' = Call("edit", Mfile)
  /\ UNCHANGED <<buffers, listed, loaded, bibvars>>
  /\ UNCHANGED omnivars

\* a .bib file is created or removed
ChangeBibFile(fname) ==
  /\ bibfiles' = IF fname \in bibfiles THEN bibfiles \ {fname}
                 ELSE bibfiles \cup {fname}
  /\ last' = Call("bibfile", fname)
  /\ UNCHANGED <<buffers, content, listed, loaded, _bibpaths, _bibentries,
                 prev>>
  /\ UNCHANGED omnivars

\* d.tex is open and is a chapter of m.tex; m.tex is on disk
InitBib ==
  /\ buffers = <<>>
  /\ content = [n \in Docs |->
                  IF n = Dfile THEN <<ModelineLine("m.tex")>>
                  ELSE IF n = Mfile
                  THEN <<DocumentclassLine, BibliographyLine(<<"refs">>)>>
                  ELSE <<DocumentclassLine>>]
  /\ listed = {Dfile}
  /\ loaded = {Dfile}
  /\ _bibpaths = {}
  /\ _bibentries = <<>>
  /\ bibfiles = {TdsRefs}
  /\ prev = NoPrev
  /\ last = NoCall
  /\ _incpaths = {}
  /\ keyword = None
  /\ current_line = <<>>

NextBib ==
  \/ \E name \in BibCallers : AddBuffer(name)
  \/ \E name \in BibCallers, update \in BOOLEAN : GetBibpaths(name, update)
  \/ \E name \in BibCallers : GetBibentries(name)
  \/ \E name \in BibCallers : Update(name)
  \/ \E bibpaths \in ExplicitBibpaths : UpdateBibpaths(bibpaths)
  \/ LoadMaster
  \/ \E lines \in BibContents : EditMaster(lines)
  \/ \E fname \in ChangingBibFiles : ChangeBibFile(fname)

SpecBib == InitBib /\ [][NextBib]_vars

(***************************************************************************)
(* TeXSevenOmni._labels                                                    *)
(***************************************************************************)
\* the .tex files of /p that are read from disk, by their name in /p
ChapterText(fname) ==
  CASE fname = "c1.tex" -> <<LabelLine("sec:1"), InputLine("c2")>>
    [] fname = "c2.tex" -> <<CommentLine, LabelLine("eq:2")>>
    [] OTHER -> <<>>

\* open(path.join(master_folder, fname), 'r') succeeds
ChaptersOnDisk == {"c1.tex", "c2.tex"}

\* path.split(vimbuffer.name)[1]
Basename(name) ==
  CASE name = Mfile -> "m.tex"
    [] name = Dfile -> "d.tex"
    [] OTHER -> "x.tex"

\* if not fname.endswith('.tex'): fname += '.tex'
WithTexExtension(fname) ==
  CASE fname = "c1" -> "c1.tex"
    [] fname = "c2" -> "c2.tex"
    [] fname = "gone" -> "gone.tex"
    [] OTHER -> fname

\* [dict(word=i, menu=menu) for i in keys]
Tagged(keys, menu) == [i \in 1..Len(keys) |-> [word |-> keys[i], menu |-> menu]]

IsLabel(line) == line.kind = "label"
IsIncluded(line) == line.kind \in {"include", "input"}
IsLabelOrIncluded(line) == IsLabel(line) \/ IsIncluded(line)

\* the first group of every match
Args(lines) == [i \in 1..Len(lines) |-> lines[i].args[1]]

\* re.findall(r'\\label{(?P<label>[^,}]+)}', f.read())
FileLabels(fname) == Args(SelectSeq(ChapterText(fname), IsLabel))

\* the outcome of _labels
LabelOutcome(err, arg, ret) == [err |-> err, arg |-> arg, ret |-> ret]

\* one pass of the loop over included, fname with its extension; the except
\* clause calls str(e).decode, which Python 3 does not have
ReadIncluded(acc, fname, py3) ==
  IF fname \in ChaptersOnDisk
  THEN [acc EXCEPT !.ret = @ \o Tagged(FileLabels(fname), fname)]
  ELSE IF py3 THEN LabelOutcome("AttributeError", fname, <<>>)
  ELSE acc

\* for fname in included: ...
RECURSIVE IncludedLoop(_, _, _)
IncludedLoop(included, acc, py3) ==
  IF included = <<>> \/ acc.err # "" THEN acc
  ELSE IncludedLoop(Tail(included),
                    ReadIncluded(acc, WithTexExtension(Head(included)), py3),
                    py3)

\* _labels that raises whenever the pattern matches nothing
_labels_strict(master, lines, py3) ==
  IF SelectSeq(lines, IsLabelOrIncluded) = <<>>
  THEN LabelOutcome("MASTER_NOT_ACTIVE", Basename(master), <<>>)
  ELSE IncludedLoop(Args(SelectSeq(lines, IsIncluded)),
                    LabelOutcome("", "",
                      Tagged(Args(SelectSeq(lines, IsLabel)), Basename(master))),
                    py3)

\* _labels that reads the included files before it lists the master's labels
_labels_included_first(master, lines, py3) ==
  IF SelectSeq(lines, IsLabelOrIncluded) = <<>>
  THEN IF JoinedIsEmpty(lines)
       THEN LabelOutcome("MASTER_NOT_ACTIVE", Basename(master), <<>>)
       ELSE LabelOutcome("", "", <<>>)
  ELSE [IncludedLoop(Args(SelectSeq(lines, IsIncluded)),
                     LabelOutcome("", "", <<>>), py3)
          EXCEPT !.ret = @ \o Tagged(Args(SelectSeq(lines, IsLabel)),
                                     Basename(master))]

\* the body of _labels, called with the master's buffer
_labels(master, lines, py3) ==
  IF SelectSeq(lines, IsLabelOrIncluded) = <<>>
  THEN IF JoinedIsEmpty(lines)
       THEN LabelOutcome("MASTER_NOT_ACTIVE", Basename(master), <<>>)
       ELSE LabelOutcome("", "", <<>>)
  ELSE IncludedLoop(Args(SelectSeq(lines, IsIncluded)),
                    LabelOutcome("", "",
                      Tagged(Args(SelectSeq(lines, IsLabel)), Basename(master))),
                    py3)

\* the record of a call that went through multi_file (w) into _labels (r)
LabelsStep(name, w, r) ==
  /\ Swapped(w)
  /\ last' = [Call("_labels", name) EXCEPT
                !.err = IF w.err # "" THEN w.err ELSE r.err,
                !.arg = IF w.err # "" THEN w.arg ELSE r.arg,
                !.master = w.master, !.fresh = w.fresh, !.badd = w.badd,
                !.read = w.err = "",
                !.labels = IF w.err # "" THEN <<>> ELSE r.ret]

\* _labels(vim.current.buffer), with vim.current.buffer = name
Labels(name, py3) ==
  /\ name \in loaded
  /\ LabelsStep(name, multi_file(buffers, name),
       _labels(multi_file(buffers, name).master,
               BufferLines(multi_file(buffers, name).master), py3))
  /\ UNCHANGED <<content, loaded, bibvars>>
  /\ UNCHANGED omnivars

MaxLabelLines == 3

\* the lines of a master that _labels tells apart
LabelLines ==
  {DocumentclassLine, EmptyLine, LabelLine("eq:1"), LabelLine("fig:1"),
   IncludeLine("c1"), InputLine("c2.tex"), IncludeLine("gone")}

LabelContents == SeqsUpTo(LabelLines, MaxLabelLines)

\* d.tex is open and is a chapter of m.tex, whose text is any of LabelContents
InitLabels ==
  /\ buffers = <<>>
  /\ \E m \in LabelContents :
       content = [n \in Docs |->
                    IF n = Dfile THEN <<ModelineLine("m.tex")>>
                    ELSE IF n = Mfile THEN m ELSE <<DocumentclassLine>>]
  /\ listed = {Dfile}
  /\ loaded = {Dfile}
  /\ _bibpaths = {}
  /\ _bibentries = <<>>
  /\ bibfiles = {TdsRefs}
  /\ prev = NoPrev
  /\ last = NoCall
  /\ _incpaths = {}
  /\ keyword = None
  /\ current_line = <<>>

NextLabels ==
  \/ \E name \in BibCallers : AddBuffer(name)
  \/ \E name \in BibCallers, py3 \in BOOLEAN : Labels(name, py3)
  \/ LoadMaster

SpecLabels == InitLabels /\ [][NextLabels]_vars

(***************************************************************************)
(* TeXSevenOmni.get_incpaths.  The editor's working directory is /p.       *)
(***************************************************************************)
\* b.endswith('.tex')
EndsWithTex(b) == b \in {"c1.tex", "c2.tex", "gone.tex"}

\* the outcome of get_incpaths
IncOutcome(err, arg, ret, cache, read) ==
  [err |-> err, arg |-> arg, ret |-> ret, cache |-> cache, read |-> read]

\* one pass of the loop over incfiles, without the test of the extension
AddIncPathUnchecked(acc, b) ==
  IF WithTexExtension(b) \in ChaptersOnDisk
  THEN [acc EXCEPT !.cache = @ \cup {b}, !.ret = @ \cup {b}]
  ELSE [acc EXCEPT !.err = "INVALID_INCLUDE_PATH", !.arg = b, !.ret = {}]

\* one pass of the loop over incfiles; path.exists(b + '.tex')
AddIncPath(acc, b) ==
  IF EndsWithTex(b)
  THEN [acc EXCEPT !.err = "INCLUDE_EXTENSION", !.arg = b, !.ret = {}]
  ELSE IF WithTexExtension(b) \in ChaptersOnDisk
  THEN [acc EXCEPT !.cache = @ \cup {b}, !.ret = @ \cup {b}]
  ELSE [acc EXCEPT !.err = "INVALID_INCLUDE_PATH", !.arg = b, !.ret = {}]

\* for b in incfiles: ... ; the raise ends the loop
RECURSIVE IncLoop(_, _)
IncLoop(incfiles, acc) ==
  IF incfiles = <<>> \/ acc.err # "" THEN acc
  ELSE IncLoop(Tail(incfiles), AddIncPath(acc, Head(incfiles)))

\* p = re.compile(r'^\s*\\include{([^}]+)}', re.MULTILINE)
IsInclude(l) == l.kind = "include"

\* the body of get_incpaths, called with the lines of the master's buffer
get_incpaths(cache, lines, update) ==
  IF cache # {} /\ ~update THEN IncOutcome("", "", cache, cache, FALSE)
  ELSE IF JoinedIsEmpty(lines)
  THEN IncOutcome("MASTER_NOT_ACTIVE", "", {}, cache, TRUE)
  ELSE IF SelectSeq(lines, IsInclude) = <<>>
  THEN IncOutcome("", "", cache, cache, TRUE)
  ELSE IncLoop(Args(SelectSeq(lines, IsInclude)),
               IncOutcome("", "", cache, cache, TRUE))

\* get_incpaths under multi_file: w is the outcome of new_f, r of the body
IncpathsEffects(w, r) ==
  /\ Swapped(w)
  /\ _incpaths' = IF w.err # "" THEN _incpaths ELSE r.cache

\* the record of a call that went through multi_file (w) into get_incpaths (r)
IncCall(op, name, update, w, r) ==
  [Call(op, name) EXCEPT
     !.err = IF w.err # "" THEN w.err ELSE r.err,
     !.arg = IF w.err # "" THEN w.arg
             ELSE IF r.err = "MASTER_NOT_ACTIVE" THEN Basename(w.master)
             ELSE r.arg,
     !.master = w.master, !.fresh = w.fresh, !.badd = w.badd,
     !.update = update,
     !.paths = IF w.err # "" THEN {} ELSE r.ret,
     !.read = w.err = "" /\ r.read]

GetIncpathsStep(name, update, w, r) ==
  /\ IncpathsEffects(w, r)
  /\ last' = IncCall("get_incpaths", name, update, w, r)

\* get_incpaths(vim.current.buffer, update), with vim.current.buffer = name
GetIncpaths(name, update) ==
  /\ name \in loaded
  /\ GetIncpathsStep(name, update, multi_file(buffers, name),
       get_incpaths(_incpaths, BufferLines(multi_file(buffers, name).master),
                    update))
  /\ UNCHANGED <<content, loaded, bibvars, keyword, current_line>>

\* TeXSevenOmni.update: super().update() (w, r), then
\* get_incpaths(vim.current.buffer, update=True) (i) when that returned
OmniUpdateStep(name, w, r, i) ==
  /\ Swapped(w)
  /\ _bibentries' = <<>>
  /\ _bibpaths' = IF w.err # "" THEN ClearedBibpaths(_bibpaths) ELSE r.cache
  /\ prev' = NoPrev
  /\ _incpaths' = IF w.err # "" \/ r.err # "" THEN _incpaths ELSE i.cache
  /\ last' = [Call("omni_update", name) EXCEPT
                !.err = IF w.err # "" THEN w.err
                        ELSE IF r.err # "" THEN r.err ELSE i.err,
                !.arg = IF w.err # "" THEN w.arg
                        ELSE IF r.err # "" THEN r.arg ELSE i.arg,
                !.master = w.master, !.fresh = w.fresh, !.badd = w.badd,
                !.update = TRUE,
                !.paths = IF w.err # "" \/ r.err # "" THEN {} ELSE i.ret,
                !.dropped = _bibentries]

\* omni.update(), with vim.current.buffer = name
OmniUpdate(name) ==
  /\ name \in loaded
  /\ OmniUpdateStep(name, multi_file(buffers, name),
       get_bibpaths(ClearedBibpaths(_bibpaths),
                    BufferLines(multi_file(buffers, name).master), TRUE,
                    bibfiles),
       get_incpaths(_incpaths, BufferLines(multi_file(buffers, name).master),
                    TRUE))
  /\ UNCHANGED <<content, loaded, bibfiles, keyword, current_line>>

\* the text of m.tex in the editor, by its \include lines
IncludeContents ==
  {<<DocumentclassLine>>,
   <<EmptyLine>>,
   <<DocumentclassLine, IncludeLine("c1")>>,
   <<IncludeLine("c1"), IncludeLine("c2")>>,
   <<IncludeLine("c2"), InputLine("c1"), IncludeLine("c2")>>,
   <<IncludeLine("c1"), IncludeLine("gone"), IncludeLine("c2")>>,
   <<IncludeLine("c2"), IncludeLine("c1.tex")>>,
   <<IncludeLine("gone"), IncludeLine("c1.tex")>>}

\* d.tex is open and is a chapter of m.tex; m.tex is on disk
InitIncludes ==
  /\ buffers = <<>>
  /\ content = [n \in Docs |->
                  IF n = Dfile THEN <<ModelineLine("m.tex")>>
                  ELSE IF n = Mfile
                  THEN <<DocumentclassLine, IncludeLine("c1")>>
                  ELSE <<DocumentclassLine>>]
  /\ listed = {Dfile}
  /\ loaded = {Dfile}
  /\ _bibpaths = {}
  /\ _bibentries = <<>>
  /\ bibfiles = {TdsRefs}
  /\ prev = NoPrev
  /\ last = NoCall
  /\ _incpaths = {}
  /\ keyword = None
  /\ current_line = <<>>

NextIncludes ==
  \/ \E name \in BibCallers : AddBuffer(name)
  \/ \E name \in BibCallers, update \in BOOLEAN : GetIncpaths(name, update)
  \/ LoadMaster
  \/ \E lines \in IncludeContents : EditMaster(lines)
  \/ \E name \in BibCallers : OmniUpdate(name)

SpecIncludes == InitIncludes /\ [][NextIncludes]_vars

(***************************************************************************)
(* TeXSevenOmni.findstart.  Positions are counted from 1: the Python index *)
(* of a character is its position minus one.                               *)
(***************************************************************************)
\* the characters that \w does not match
NonWord == {"\\", "{", "}", ",", "[", "]", "(", ")", " ", ":"}

IsWord(c) == c \notin NonWord

\* line.rfind(c) + 1
RFind(text, c) ==
  IF \E i \in 1..Len(text) : text[i] = c
  THEN CHOOSE i \in 1..Len(text) :
         text[i] = c /\ \A j \in (i + 1)..Len(text) : text[j] # c
  ELSE 0

\* max((line.rfind('{'), line.rfind(','), line.rfind('\\'))) + 1
Rightmost(text) ==
  Max(RFind(text, "{"), Max(RFind(text, ","), RFind(text, "\\")))

\* the end of \w+ matched from position i: the whole run of word characters
WordEnd(text, i) ==
  CHOOSE k \in i..Len(text) :
    /\ \A j \in i..k : IsWord(text[j])
    /\ k = Len(text) \/ ~IsWord(text[k + 1])

\* the position after (?:[(].+[)])? or (?:[\[].+[]])? tried at position q:
\* .+ is greedy, so the group ends at the last closing character of the text
AfterGroup(text, q, open, close) ==
  IF q <= Len(text) /\ text[q] = open
       /\ \E k \in (q + 2)..Len(text) : text[k] = close
  THEN 1 + CHOOSE k \in (q + 2)..Len(text) :
             text[k] = close /\ \A j \in (k + 1)..Len(text) : text[j] # close
  ELSE q

\* the position after {? tried at position q
AfterBrace(text, q) == IF q <= Len(text) /\ text[q] = "{" THEN q + 1 ELSE q

\* the position after the match of pat that starts with the backslash at i
MatchEnd(text, i) ==
  AfterBrace(text,
    AfterGroup(text,
      AfterGroup(text, WordEnd(text, i + 1) + 1, "(", ")"), "[", "]"))

\* the positions from q on where pat matches: a backslash before a word
MatchStarts(text, q) ==
  {i \in q..(Len(text) - 1) : text[i] = "\\" /\ IsWord(text[i + 1])}

FirstOf(S) == CHOOSE i \in S : \A j \in S : i <= j

\* pat.findall(line), from position q on: the names matched, left to right,
\* each search starting where the match before it ended
RECURSIVE FindAllFrom(_, _)
FindAllFrom(text, q) ==
  IF MatchStarts(text, q) = {} THEN <<>>
  ELSE <<SubSeq(text, FirstOf(MatchStarts(text, q)) + 1,
                WordEnd(text, FirstOf(MatchStarts(text, q)) + 1))>>
       \o FindAllFrom(text, MatchEnd(text, FirstOf(MatchStarts(text, q))))

\* the try block: "" at a backslash, else the last match, None when there
\* is none
GrabKeyword(text, found) ==
  IF text # <<>> /\ text[Len(text)] = "\\" THEN <<>>
  ELSE IF found = <<>> THEN None
  ELSE found[Len(found)]

\* '}' in line[start:]
ClosedAfter(text, pos) == \E k \in pos..Len(text) : text[k] = "}"

\* findstart without the test for '}'
Unguarded(text, pos, kw) ==
  IF pos = 0 THEN [start |-> -1, keyword |-> kw]
  ELSE [start |-> pos, keyword |-> kw]

\* the finally block without self.keyword = None in the '}' branch
GuardedKeepingKeyword(text, pos, kw) ==
  IF pos = 0 THEN [start |-> -1, keyword |-> kw]
  ELSE IF ClosedAfter(text, pos) THEN [start |-> -1, keyword |-> kw]
  ELSE [start |-> pos, keyword |-> kw]

\* the finally block, pos = start + 1 and kw the keyword of the try block
Guarded(text, pos, kw) ==
  IF pos = 0 THEN [start |-> -1, keyword |-> kw]
  ELSE IF ClosedAfter(text, pos) THEN [start |-> -1, keyword |-> None]
  ELSE [start |-> pos, keyword |-> kw]

findstart(text) ==
  Guarded(text, Rightmost(text), GrabKeyword(text, FindAllFrom(text, 1)))

FindStartStep(r) ==
  /\ keyword' = r.keyword
  /\ last' = [Call("findstart", "") EXCEPT !.start = r.start]

\* omni.findstart(), the cursor at the end of current_line
FindStart ==
  /\ FindStartStep(findstart(current_line))
  /\ UNCHANGED <<buffers, content, listed, loaded, bibvars, _incpaths,
                 current_line>>

(***************************************************************************)
(* TeXSevenOmni.completions                                                *)
(***************************************************************************)
KwCite == <<"c", "i", "t", "e">>
KwCapCite == <<"C", "i", "t", "e">>
KwRef == <<"r", "e", "f">>
KwFont == <<"f", "o", "n", "t">>
KwSetmath == <<"s", "e", "t", "m", "a", "t", "h">>
KwIncludegraphics ==
  <<"i", "n", "c", "l", "u", "d", "e", "g", "r", "a", "p", "h", "i", "c", "s">>
KwIncludeonly == <<"i", "n", "c", "l", "u", "d", "e", "o", "n", "l", "y">>

\* sub in word
Contains(sub, word) ==
  \E i \in 1..(Len(word) - Len(sub) + 1) :
    SubSeq(word, i, i + Len(sub) - 1) = sub

\* the chain of tests with 'ref' tried before 'cite'
DispatchRefFirst(kw) ==
  IF kw = None THEN ""
  ELSE IF Contains(KwRef, kw) THEN "_labels"
  ELSE IF Contains(KwCite, kw) \/ Contains(KwCapCite, kw) THEN "bibentries"
  ELSE IF Contains(KwFont, kw) \/ Contains(KwSetmath, kw) THEN "_fonts"
  ELSE IF Contains(KwIncludegraphics, kw) THEN "_pics"
  ELSE IF Contains(KwIncludeonly, kw) THEN "incpaths"
  ELSE ""

\* the if/elif chain over self.keyword: the attribute or method it reaches
Dispatch(kw) ==
  IF kw = None THEN ""
  ELSE IF Contains(KwCite, kw) \/ Contains(KwCapCite, kw) THEN "bibentries"
  ELSE IF Contains(KwRef, kw) THEN "_labels"
  ELSE IF Contains(KwFont, kw) \/ Contains(KwSetmath, kw) THEN "_fonts"
  ELSE IF Contains(KwIncludegraphics, kw) THEN "_pics"
  ELSE IF Contains(KwIncludeonly, kw) THEN "incpaths"
  ELSE ""

\* the errors raised as TeXSevenError, which completions catches
TeXSevenErrors ==
  {"NO_MODELINE", "INVALID_MODELINE", "MASTER_NOT_ACTIVE", "INVALID_BIBFILE",
   "INCLUDE_EXTENSION", "INVALID_INCLUDE_PATH", "NO_OUTPUT"}

\* the record of a completions call whose provider ended with err ("" when
\* it returned): except TeXSevenError catches err or lets it through
ComplCall(name, provider, err, arg, w) ==
  [Call("completions", name) EXCEPT
     !.provider = provider,
     !.err = IF err \in TeXSevenErrors THEN "" ELSE err,
     !.arg = IF err \in TeXSevenErrors THEN "" ELSE arg,
     !.caught = IF err \in TeXSevenErrors THEN err ELSE "",
     !.master = w.master, !.fresh = w.fresh, !.badd = w.badd]

\* the outcome of new_f for a provider that is not under multi_file
NoSwap == Outcome("", "", "", FALSE, FALSE, buffers)

\* the first error of multi_file (w) and of the method under it (r)
FirstErr(w, r) == IF w.err # "" THEN w.err ELSE r.err
FirstArg(w, r) == IF w.err # "" THEN w.arg ELSE r.arg

\* no test matched, or the keyword is None: compl = []
ComplNone(name) ==
  /\ last' = ComplCall(name, "", "", "", NoSwap)
  /\ UNCHANGED <<buffers, listed, _bibpaths, _bibentries, prev, _incpaths>>

\* compl = self.bibentries, the list not cached yet
ComplFillBibentries(name, w, r) ==
  /\ BibpathsEffects(FALSE, w, r)
  /\ IF w.err # "" \/ r.err # ""
     THEN /\ _bibentries' = _bibentries
          /\ last' = ComplCall(name, "bibentries", FirstErr(w, r),
                               FirstArg(w, r), w)
     ELSE \E bibpaths \in ListsOf(r.ret) :
            /\ _bibentries' = _bibentries \o ParseAll(bibfiles, bibpaths)
            /\ last' = [ComplCall(name, "bibentries", "", "", w) EXCEPT
                          !.entries = _bibentries']

\* compl = self.bibentries
ComplBibentries(name) ==
  /\ IF _bibentries # <<>>
     THEN /\ last' = [ComplCall(name, "bibentries", "", "", NoSwap) EXCEPT
                        !.entries = _bibentries]
          /\ UNCHANGED <<buffers, listed, _bibpaths, _bibentries, prev>>
     ELSE ComplFillBibentries(name, multi_file(buffers, name),
            get_bibpaths(_bibpaths,
                         BufferLines(multi_file(buffers, name).master),
                         FALSE, bibfiles))
  /\ UNCHANGED _incpaths

ComplLabelsStep(name, w, r) ==
  /\ Swapped(w)
  /\ last' = [ComplCall(name, "_labels", FirstErr(w, r), FirstArg(w, r), w)
                EXCEPT !.labels = IF FirstErr(w, r) # "" THEN <<>> ELSE r.ret]

\* compl = self._labels(vim.current.buffer)
ComplLabels(name, py3) ==
  /\ ComplLabelsStep(name, multi_file(buffers, name),
       _labels(multi_file(buffers, name).master,
               BufferLines(multi_file(buffers, name).master), py3))
  /\ UNCHANGED <<_bibpaths, _bibentries, prev, _incpaths>>

\* _fonts: fc-list has to be installed (fc), and under Python 3 re.split is
\* handed the bytes that fc-list printed
_fonts(py3, fc) ==
  IF ~fc THEN LabelOutcome("OSError", "fc-list", <<>>)
  ELSE IF py3 THEN LabelOutcome("TypeError", "", <<>>)
  ELSE LabelOutcome("", "", <<"DejaVu Sans", "Latin Modern Math">>)

ComplListStep(name, provider, r) ==
  /\ last' = [ComplCall(name, provider, r.err, r.arg, NoSwap) EXCEPT
                !.entries = IF r.err # "" THEN <<>> ELSE r.ret]
  /\ UNCHANGED <<buffers, listed, _bibpaths, _bibentries, prev, _incpaths>>

\* compl = self._fonts()
ComplFonts(name, py3, fc) == ComplListStep(name, "_fonts", _fonts(py3, fc))

\* _pics: the pictures in the directory of the current buffer
_pics == LabelOutcome("", "", <<"fig.png">>)

\* compl = self._pics()
ComplPics(name) == ComplListStep(name, "_pics", _pics)

ComplIncpathsStep(name, w, r) ==
  /\ IncpathsEffects(w, r)
  /\ last' = [ComplCall(name, "incpaths", FirstErr(w, r), FirstArg(w, r), w)
                EXCEPT !.paths = IF FirstErr(w, r) # "" THEN {} ELSE r.ret]

\* compl = self.incpaths
ComplIncpaths(name) ==
  /\ ComplIncpathsStep(name, multi_file(buffers, name),
       get_incpaths(_incpaths, BufferLines(multi_file(buffers, name).master),
                    FALSE))
  /\ UNCHANGED <<_bibpaths, _bibentries, prev>>

\* the provider chosen runs
Provide(name, provider, py3, fc) ==
  CASE provider = "bibentries" -> ComplBibentries(name)
    [] provider = "_labels" -> ComplLabels(name, py3)
    [] provider = "_fonts" -> ComplFonts(name, py3, fc)
    [] provider = "_pics" -> ComplPics(name)
    [] provider = "incpaths" -> ComplIncpaths(name)
    [] OTHER -> ComplNone(name)

\* omni.completions(), with vim.current.buffer = name
Completions(name, py3, fc) ==
  /\ name \in loaded
  /\ Provide(name, Dispatch(keyword), py3, fc)
  /\ UNCHANGED <<content, loaded, bibfiles, keyword, current_line>>

(***************************************************************************)
(* Omni completion in an editing session: the user types a line, the       *)
(* editor calls findstart and then completions.                            *)
(***************************************************************************)
\* \word
Cmd(word) == <<"\\">> \o word

\* the directive names typed in the session
OmniWords ==
  {KwCite, KwCapCite \o <<"p">>, <<"n", "o">> \o KwCite, KwRef,
   <<"e", "q">> \o KwRef, KwCite \o KwRef, KwFont \o KwRef,
   KwFont \o <<"s", "p", "e", "c">>, KwSetmath \o KwFont,
   KwIncludegraphics, KwIncludeonly, KwIncludeonly \o KwRef,
   <<"t", "e", "x", "t", "b", "f">>}

\* the text before the cursor: \word{ for each word, a lone backslash,
\* nothing, and \ref{a}
OmniLines ==
  {Cmd(w) \o <<"{">> : w \in OmniWords}
    \cup {<<"\\">>, <<>>, Cmd(KwRef) \o <<"{", "a", "}">>}

\* the text of m.tex
OmniMaster ==
  <<DocumentclassLine, BibliographyLine(<<"refs">>), LabelLine("eq:1"),
    IncludeLine("c1")>>

\* d.tex (a chapter of m.tex) and x.tex (no master to be found) are open,
\* m.tex is on disk, and no document has been registered
InitOmni ==
  /\ buffers = <<>>
  /\ content = [n \in Docs |->
                  IF n = Dfile THEN <<ModelineLine("m.tex")>>
                  ELSE IF n = Mfile THEN OmniMaster ELSE <<CommentLine>>]
  /\ listed = {Dfile, Xfile}
  /\ loaded = {Dfile, Xfile}
  /\ _bibpaths = {}
  /\ _bibentries = <<>>
  /\ bibfiles = {TdsRefs}
  /\ prev = NoPrev
  /\ last = NoCall
  /\ _incpaths = {}
  /\ keyword = None
  /\ current_line \in OmniLines

NextOmni ==
  \/ \E name \in Docs : AddBuffer(name)
  \/ FindStart
  \/ \E name \in Docs, py3 \in BOOLEAN, fc \in BOOLEAN :
       Completions(name, py3, fc)
  \/ LoadMaster

SpecOmni == InitOmni /\ [][NextOmni]_vars

(***************************************************************************)
(* findstart and completions on the lines a user may have typed            *)
(***************************************************************************)
MaxTokens == 3

\* the pieces of text a line is typed from
Tokens ==
  {Cmd(KwRef), Cmd(KwCite), <<"{">>, <<"}">>, <<",">>, <<"[", "p", "]">>,
   <<"e", "q">>, <<"\\">>, <<" ">>}

RECURSIVE Flatten(_)
Flatten(pieces) ==
  IF pieces = <<>> THEN <<>> ELSE Head(pieces) \o Flatten(Tail(pieces))

\* See \ref{eq
SeeRefEq == <<"S", "e", "e", " ">> \o Cmd(KwRef) \o <<"{", "e", "q">>

\* \cite[p]{a} \ref[p]{
CiteThenRef ==
  Cmd(KwCite) \o <<"[", "p", "]", "{", "a", "}", " ">>
    \o Cmd(KwRef) \o <<"[", "p", "]", "{">>

\* vim.current.line[:col]
StartLines ==
  {Flatten(pieces) : pieces \in SeqsUpTo(Tokens, MaxTokens)}
    \cup {SeeRefEq, CiteThenRef}

\* m.tex is the document in the editor; it has not been registered yet
InitStart ==
  /\ buffers = <<>>
  /\ content = [n \in Docs |->
                  IF n = Mfile THEN OmniMaster ELSE <<DocumentclassLine>>]
  /\ listed = {Mfile}
  /\ loaded = {Mfile}
  /\ _bibpaths = {}
  /\ _bibentries = <<>>
  /\ bibfiles = {TdsRefs}
  /\ prev = NoPrev
  /\ last = NoCall
  /\ _incpaths = {}
  /\ keyword = None
  /\ current_line \in StartLines

NextStart ==
  \/ AddBuffer(Mfile)
  \/ FindStart
  \/ \E py3 \in BOOLEAN, fc \in BOOLEAN : Completions(Mfile, py3, fc)

SpecStart == InitStart /\ [][NextStart]_vars

(***************************************************************************)
(* find_master_file on documents longer than the lines it inspects         *)
(***************************************************************************)
MaxDocLines == 7

\* a document of n comment lines, but for a modeline naming r1 in line k and
\* one naming r2 in line j
ModelineText(n, k, r1, j, r2) ==
  [i \in 1..n |->
     IF i = k THEN ModelineLine(r1)
     ELSE IF i = j THEN ModelineLine(r2) ELSE CommentLine]

\* the texts of d.tex: one or two modelines anywhere in up to MaxDocLines
\* lines, and the same texts with a \documentclass in the last line
ModelineTexts ==
  {ModelineText(n, k, r1, j, r2) :
     n \in 1..MaxDocLines, k \in 1..MaxDocLines, j \in 1..MaxDocLines,
     r1 \in {"m.tex", "gone.tex"}, r2 \in {"m.tex"}}
    \cup {Append(ModelineText(n, k, "m.tex", k, "m.tex"), DocumentclassLine) :
            n \in 1..(MaxDocLines - 1), k \in 1..MaxDocLines}

\* d.tex is open with one of ModelineTexts; m.tex and x.tex are masters
InitModeline ==
  /\ buffers = <<>>
  /\ \E d \in ModelineTexts :
       content = [n \in Docs |-> IF n = Dfile THEN d ELSE <<DocumentclassLine>>]
  /\ listed = Docs
  /\ loaded = Docs
  /\ _bibpaths = {}
  /\ _bibentries = <<>>
  /\ bibfiles = {TdsRefs}
  /\ prev = NoPrev
  /\ last = NoCall
  /\ _incpaths = {}
  /\ keyword = None
  /\ current_line = <<>>

NextModeline ==
  \/ AddBuffer(Dfile)
  \/ GetMasterFile(Dfile)

SpecModeline == InitModeline /\ [][NextModeline]_vars

(***************************************************************************)
(* Every operation on the registry in one session                          *)
(***************************************************************************)
NextSession ==
  \/ \E name \in Docs : AddBuffer(name)
  \/ \E name \in Docs : GetMasterFile(name)
  \/ \E name \in Docs : GetMasterOutput(name)
  \/ \E name \in Docs, update \in BOOLEAN : GetBibpaths(name, update)
  \/ \E name \in Docs : GetBibentries(name)
  \/ \E name \in Docs, update \in BOOLEAN : GetIncpaths(name, update)
  \/ \E name \in Docs, py3 \in BOOLEAN : Labels(name, py3)
  \/ \E name \in Docs : OmniUpdate(name)
  \/ FindStart
  \/ \E name \in Docs, py3 \in BOOLEAN, fc \in BOOLEAN :
       Completions(name, py3, fc)
  \/ LoadMaster

SpecSession == InitOmni /\ [][NextSession]_vars

(***************************************************************************)
(* Two projects in one editing session: d.tex is a chapter of m.tex, x.tex *)
(* is the master of another project with a bibliography of its own.        *)
(***************************************************************************)
InitProjects ==
  /\ buffers = <<>>
  /\ content = [n \in Docs |->
                  IF n = Dfile THEN <<ModelineLine("m.tex")>>
                  ELSE IF n = Mfile
                  THEN <<DocumentclassLine, BibliographyLine(<<"refs">>)>>
                  ELSE <<DocumentclassLine, BibliographyLine(<<"extra">>)>>]
  /\ listed = Docs
  /\ loaded = Docs
  /\ _bibpaths = {}
  /\ _bibentries = <<>>
  /\ bibfiles = {TdsRefs, TdsExtra}
  /\ prev = NoPrev
  /\ last = NoCall
  /\ _incpaths = {}
  /\ keyword = None
  /\ current_line = <<>>

NextProjects ==
  \/ \E name \in Docs : AddBuffer(name)
  \/ \E name \in Docs, update \in BOOLEAN : GetBibpaths(name, update)
  \/ \E name \in Docs : GetBibentries(name)
  \/ \E name \in Docs : Update(name)

SpecProjects == InitProjects /\ [][NextProjects]_vars

(***************************************************************************)
(* Properties of the registry                                              *)
(***************************************************************************)
\* the text of the buffer holds a \documentclass directive
ContainsDocumentclass(lines) ==
  \E i \in 1..Len(lines) : lines[i].kind = "documentclass"

\* the positions of the modelines within the first and the last nlines lines
BoundaryModelines(lines) ==
  {i \in 1..Len(lines) :
     /\ i <= nlines \/ i > Len(lines) - nlines
     /\ lines[i].kind = "modeline"}

\* the file named by the modeline found: the earliest of the boundary lines
NamedByModeline(lines) ==
  lines[CHOOSE i \in BoundaryModelines(lines) :
          \A j \in BoundaryModelines(lines) : i <= j].args[1]

\* a call of get_master_file on a registered document has just ended
Resolved == last.op = "get_master_file" /\ last.err # "KeyError"

\* C1: once a registered document has a resolved master reference, no
\* operation changes that reference to another value.
C1_MasterReferenceStable ==
  [][\A n \in DOMAIN buffers :
       buffers[n].master # ""
         => n \in DOMAIN buffers' /\ buffers'[n].master = buffers[n].master]_vars

\* C2 as stated: get_master_file on a registered document whose text holds
\* a \documentclass directive returns the document's own name, whatever the
\* registry holds.
C2_DocumentclassIsMaster ==
  (Resolved /\ ContainsDocumentclass(content[last.doc]))
    => (last.err = "" /\ last.master = last.doc)

\* C2 amended: get_master_file on a registered document whose master
\* reference is unresolved and whose text has a line starting with
\* \documentclass returns the document's own name and memoizes it, whatever
\* else the registry holds and whatever modeline the document carries; a
\* reference resolved earlier is returned as memoized.
C2_DocumentclassIsMasterWhenUnresolved ==
  /\ (Resolved /\ last.fresh /\ ContainsDocumentclass(content[last.doc]))
       => /\ last.err = ""
          /\ last.master = last.doc
          /\ buffers[last.doc].master = last.doc
  /\ (Resolved /\ ~last.fresh)
       => (last.err = "" /\ last.master = buffers[last.doc].master)

C2_Witness ==
  /\ Resolved /\ last.fresh /\ last.doc = Dfile /\ last.master = Dfile
  /\ content[Dfile] = <<ModelineLine("m.tex"), DocumentclassLine>>
  /\ Mfile \in DOMAIN buffers /\ buffers[Mfile].master = Xfile

\* C3: once get_master_file of a document d has returned another file m
\* (d's modeline names m), every later get_master_file of m returns m.
C3_MasterIsItsOwnMaster ==
  (/\ Resolved
   /\ \E d \in DOMAIN buffers : d # last.doc /\ buffers[d].master = last.doc)
    => (last.err = "" /\ last.master = last.doc)

\* C4 as stated: get_master_file on a registered document without
\* \documentclass raises INVALID_MODELINE with the modeline's path when the
\* modeline found names a file that is not on disk, and NO_MODELINE when no
\* boundary line is a modeline.
C4_ModelineErrors ==
  (Resolved /\ ~ContainsDocumentclass(content[last.doc]))
    => /\ BoundaryModelines(content[last.doc]) = {}
            => (last.err = "NO_MODELINE" /\ last.master = "")
       /\ (/\ BoundaryModelines(content[last.doc]) # {}
           /\ AbsPath(last.doc, NamedByModeline(content[last.doc]))
                \notin TexOnDisk)
            => /\ last.err = "INVALID_MODELINE"
               /\ last.arg = NamedByModeline(content[last.doc])
               /\ last.master = ""

\* C4 amended: the same, for a document whose master reference is still
\* unresolved when get_master_file is called; and then the registry is left
\* as it was.
C4_ModelineErrorsWhenUnresolved ==
  (Resolved /\ last.fresh /\ ~ContainsDocumentclass(content[last.doc]))
    => /\ BoundaryModelines(content[last.doc]) = {}
            => /\ last.err = "NO_MODELINE" /\ last.master = ""
               /\ buffers[last.doc].master = ""
       /\ (/\ BoundaryModelines(content[last.doc]) # {}
           /\ AbsPath(last.doc, NamedByModeline(content[last.doc]))
                \notin TexOnDisk)
            => /\ last.err = "INVALID_MODELINE"
               /\ last.arg = NamedByModeline(content[last.doc])
               /\ last.master = ""
               /\ buffers[last.doc].master = ""

C4_Witness ==
  /\ Resolved /\ last.fresh /\ last.doc = Dfile
  /\ content[Dfile] = <<CommentLine, ModelineLine("gone.tex")>>
  /\ last.err = "INVALID_MODELINE" /\ last.arg = "gone.tex"

\* C5: a method under multi_file is called with the buffer of the master of
\* the document it was called for, and when it runs that master is in the
\* registry with itself as master reference.
C5_MasterResolutionProtocol ==
  (last.op = "get_master_output" /\ last.err \in {"", "NO_OUTPUT"})
    => /\ last.master = buffers[last.doc].master
       /\ last.master \in DOMAIN buffers
       /\ buffers[last.master].buffer = last.master
       /\ buffers[last.master].master = last.master

\* C6: add_buffer adds an entry with an unresolved master reference only
\* when the name is absent; with the name present the registry is unchanged.
C6_AddBufferOnlyIfAbsent ==
  [][last'.op = "add_buffer"
       => IF last'.doc \in DOMAIN buffers
          THEN buffers' = buffers
          ELSE /\ DOMAIN buffers' = DOMAIN buffers \cup {last'.doc}
               /\ buffers'[last'.doc].master = ""
               /\ buffers'[last'.doc].buffer = last'.doc
               /\ \A n \in DOMAIN buffers : buffers'[n] = buffers[n]]_vars

C6_Witness ==
  /\ last.op = "add_buffer"
  /\ buffers[last.doc].master \notin {"", last.doc}

(***************************************************************************)
(* Properties of the BibTeX index                                          *)
(***************************************************************************)
\* the errors of the master resolution that multi_file lets through
MasterErrors == {"KeyError", "NO_MODELINE", "INVALID_MODELINE"}

\* the path one declared name stands for: the file in the master's
\* directory when there is one, else the file of the TDS tree
DeclaredPath(files, name) ==
  IF InMasterDir(WithBibExtension(name)) \in files
  THEN InMasterDir(WithBibExtension(name))
  ELSE IF WithBibExtension(name) = "refs.bib" THEN TdsRefs ELSE TdsExtra

\* the paths the master's bibliography directive declares
DeclaredPaths(lines, files) ==
  IF BibliographyMatches(lines) = {} THEN {}
  ELSE {DeclaredPath(files, FirstBibliography(lines)[i]) :
          i \in 1..Len(FirstBibliography(lines))}

\* the citation keys of a .bib file
KeysIn(fname) ==
  {BibText(fname)[i].args[1] :
     i \in {j \in 1..Len(BibText(fname)) : BibText(fname)[j].kind = "entry"}}

ElementsOf(seq) == {seq[i] : i \in 1..Len(seq)}

\* the text of the master the call ran on has no bibliography directive
MasterWithoutBibliography(master) ==
  /\ master # ""
  /\ ~JoinedIsEmpty(BufferLines(master))
  /\ BibliographyMatches(BufferLines(master)) = {}

\* C7 as stated: two successive get_bibpaths calls without update, with no
\* update() between them, return the same set, whatever happened to the
\* master and to the .bib files in between.
C7_BibpathsIdempotent ==
  [][(/\ last'.op = "get_bibpaths" /\ ~last'.update /\ last'.err = ""
      /\ prev.valid)
       => last'.paths = prev.paths]_vars

\* C7 amended: when the first of two successive get_bibpaths calls without
\* update returned a set that is not empty, the second one returns the same
\* set without reading the master or asking kpsewhich, whatever happened to
\* the master and to the .bib files in between; an empty first result is not
\* cached and the second call reads the master again.
C7_BibpathsIdempotentOnceFilled ==
  [][(/\ last'.op = "get_bibpaths" /\ ~last'.update
      /\ last'.err \notin MasterErrors
      /\ prev.valid /\ prev.paths # {})
       => /\ last'.err = ""
          /\ last'.paths = prev.paths
          /\ ~last'.read /\ last'.asked = {}
          /\ _bibpaths' = _bibpaths]_vars

C7_Witness ==
  /\ last.op = "get_bibpaths" /\ ~last.update /\ last.err = ""
  /\ prev.again /\ last.paths = {TdsRefs}
  /\ last.master = Mfile /\ Mfile \in loaded
  /\ content[Mfile] = <<DocumentclassLine, BibliographyLine(<<"extra">>)>>
  /\ LocalRefs \in bibfiles

\* C8: a successful update() leaves the entry cache empty and in the path
\* cache exactly the paths the master's bibliography directive declares now,
\* resolved against the files that exist now; get_bibentries called with the
\* entry cache empty returns the keys found now in the files of the path
\* cache, and nothing else.
C8_UpdateClearsCaches ==
  [][/\ (last'.op = "update" /\ last'.err = "")
          => /\ _bibentries' = <<>>
             /\ _bibpaths' = DeclaredPaths(BufferLines(last'.master), bibfiles)
     /\ (last'.op = "get_bibentries" /\ last'.err = "" /\ _bibentries = <<>>)
          => /\ ElementsOf(last'.entries)
                  = UNION {KeysIn(f) : f \in _bibpaths' \cap bibfiles}
             /\ _bibentries' = last'.entries]_vars

C8_Witness ==
  /\ last.op = "update" /\ last.err = ""
  /\ ElementsOf(last.dropped) = {"knuth84", "lamport94"}
  /\ _bibpaths = {LocalRefs, TdsExtra}
  /\ _bibentries = <<>>

C10_NoBibliographyGivesEmpty ==
  (/\ last.op \in {"get_bibpaths", "get_bibentries"}
   /\ last.doc \in DOMAIN buffers
   /\ MasterWithoutBibliography(buffers[last.doc].master))
    => /\ last.err = ""
       /\ last.op = "get_bibpaths" => last.paths = {}
       /\ last.op = "get_bibentries" => last.entries = <<>>

\* C10 amended: when the master's text is not empty and has no bibliography
\* directive, get_bibpaths called with the path cache empty, or with update,
\* returns an empty set without error and leaves the path cache as it was;
\* get_bibentries called with both caches empty returns an empty list
\* without error.
C10_NoBibliographyGivesEmptyWhenNotCached ==
  [][/\ (/\ last'.op = "get_bibpaths"
         /\ last'.err \notin MasterErrors
         /\ MasterWithoutBibliography(last'.master)
         /\ (_bibpaths = {} \/ last'.update))
          => /\ last'.err = ""
             /\ last'.paths = {}
             /\ _bibpaths' = _bibpaths
     /\ (/\ last'.op = "get_bibentries"
         /\ _bibentries = <<>> /\ _bibpaths = {}
         /\ last'.err \notin MasterErrors
         /\ MasterWithoutBibliography(last'.master))
          => /\ last'.err = ""
             /\ last'.entries = <<>>
             /\ _bibentries' = <<>>]_vars

C10_Witness ==
  /\ last.op = "get_bibpaths" /\ last.update /\ last.err = ""
  /\ last.read /\ last.paths = {}
  /\ MasterWithoutBibliography(last.master)
  /\ _bibpaths # {}

\* C11: get_bibpaths for a document returns only paths that the bibliography
\* directive of that document's own master declares, never paths discovered
\* from the master of another project.
C11_PathsOfOwnMaster ==
  (last.op = "get_bibpaths" /\ last.err = "")
    => last.paths \subseteq DeclaredPaths(BufferLines(last.master), bibfiles)

\* C12 as stated: a get_bibentries call that follows a get_bibentries call
\* that returned, whatever list it returned, returns the same list and runs
\* neither the path discovery nor the parsing again.
C12_BibentriesCached ==
  [][(last.op = "get_bibentries" /\ last.err = ""
      /\ last'.op = "get_bibentries")
       => /\ last'.err = ""
          /\ last'.entries = last.entries
          /\ ~last'.read /\ last'.asked = {}
          /\ last'.master = ""]_vars

\* C12 amended: once get_bibentries has returned a list that is not empty,
\* every later call before the next update returns that list without
\* resolving the master, reading it, asking kpsewhich or parsing a file,
\* whatever happened to the master and to the .bib files since; an empty
\* list is not cached and the next call runs the discovery and the parsing
\* again.
C12_BibentriesCachedOnceFilled ==
  [][(last'.op = "get_bibentries" /\ _bibentries # <<>>)
       => /\ last'.err = ""
          /\ last'.entries = _bibentries
          /\ _bibentries' = _bibentries
          /\ ~last'.read /\ last'.asked = {} /\ last'.master = ""
          /\ _bibpaths' = _bibpaths
          /\ buffers' = buffers]_vars

C12_Witness ==
  /\ last.op = "get_bibentries" /\ last.err = ""
  /\ ~last.read /\ last.master = ""
  /\ last.entries = <<"knuth84", "lamport94">>
  /\ LocalRefs \in bibfiles
  /\ Mfile \in loaded
  /\ content[Mfile] = <<DocumentclassLine, BibliographyLine(<<"extra">>)>>

(***************************************************************************)
(* Properties of the label index                                           *)
(***************************************************************************)
\* the file an \include or \input line names, with its extension
IncludedFile(line) == WithTexExtension(line.args[1])

\* the labels of the files named by the lines, file after file in the order
\* of the lines; a file that cannot be read has none
RECURSIVE LabelsOfIncluded(_)
LabelsOfIncluded(lines) ==
  IF lines = <<>> THEN <<>>
  ELSE (IF IsIncluded(Head(lines)) /\ IncludedFile(Head(lines)) \in ChaptersOnDisk
        THEN Tagged(FileLabels(IncludedFile(Head(lines))),
                    IncludedFile(Head(lines)))
        ELSE <<>>)
       \o LabelsOfIncluded(Tail(lines))

\* a call of _labels has returned a list
LabelsReturned == last.op = "_labels" /\ last.err = ""

\* C13: the list _labels returns starts with the labels of the master, in
\* the order of the master and tagged with the master's basename, and goes
\* on with the labels of the included and input files, file after file in
\* the order of their directives in the master, tagged with the file's name
\* with its extension.
C13_MasterLabelsFirst ==
  LabelsReturned
    => /\ Len(last.labels)
            >= Len(SelectSeq(BufferLines(last.master), IsLabel))
       /\ \A i \in 1..Len(SelectSeq(BufferLines(last.master), IsLabel)) :
            /\ last.labels[i].word
                 = SelectSeq(BufferLines(last.master), IsLabel)[i].args[1]
            /\ last.labels[i].menu = Basename(last.master)
       /\ SubSeq(last.labels,
                 Len(SelectSeq(BufferLines(last.master), IsLabel)) + 1,
                 Len(last.labels))
            = LabelsOfIncluded(BufferLines(last.master))

C13_Witness ==
  /\ LabelsReturned /\ last.doc = Dfile /\ last.master = Mfile
  /\ content[Mfile] = <<InputLine("c2.tex"), LabelLine("eq:1"), IncludeLine("c1")>>
  /\ last.labels = <<[word |-> "eq:1", menu |-> "m.tex"],
                     [word |-> "eq:2", menu |-> "c2.tex"],
                     [word |-> "sec:1", menu |-> "c1.tex"]>>

\* the files the lines include or input
IncludedFiles(lines) ==
  {IncludedFile(lines[i]) : i \in {j \in 1..Len(lines) : IsIncluded(lines[j])}}

\* the files the master includes, and the files those include
TransitivelyIncluded(lines) ==
  IncludedFiles(lines)
    \cup UNION {IncludedFiles(ChapterText(f)) :
                  f \in IncludedFiles(lines) \cap ChaptersOnDisk}

\* C14: every label of a file that the master includes, directly or through
\* an included file, is in the list _labels returns.
C14_TransitiveLabels ==
  LabelsReturned
    => \A f \in TransitivelyIncluded(BufferLines(last.master)) \cap ChaptersOnDisk :
         \A i \in 1..Len(FileLabels(f)) :
           \E j \in 1..Len(last.labels) :
             last.labels[j].word = FileLabels(f)[i]

\* C15: _labels raises MASTER_NOT_ACTIVE exactly when the text of the master
\* buffer is empty; for a text that is not empty and has neither a label nor
\* an include or input directive it returns an empty list.
C15_MasterNotActiveIffEmpty ==
  (last.op = "_labels" /\ last.err \notin MasterErrors)
    => /\ last.err = "MASTER_NOT_ACTIVE"
            <=> JoinedIsEmpty(BufferLines(last.master))
       /\ last.err = "MASTER_NOT_ACTIVE"
            => last.arg = Basename(last.master) /\ last.labels = <<>>
       /\ (/\ ~JoinedIsEmpty(BufferLines(last.master))
           /\ \A i \in 1..Len(BufferLines(last.master)) :
                ~IsLabelOrIncluded(BufferLines(last.master)[i]))
            => last.err = "" /\ last.labels = <<>>

C15_Witness ==
  /\ last.op = "_labels" /\ last.doc = Dfile
  /\ last.err = "MASTER_NOT_ACTIVE" /\ last.arg = "m.tex"
  /\ Mfile \in DOMAIN buffers /\ Mfile \in listed /\ Mfile \notin loaded
  /\ content[Mfile] = <<LabelLine("eq:1")>>

(***************************************************************************)
(* Properties of the include index                                         *)
(***************************************************************************)
\* the names the \include lines of a text declare, in order
DeclaredIncludes(lines) == Args(SelectSeq(lines, IsInclude))

\* the positions of the declared names that carry .tex or name no file
Offending(names) ==
  {i \in 1..Len(names) :
     EndsWithTex(names[i]) \/ WithTexExtension(names[i]) \notin ChaptersOnDisk}

FirstOffending(names) ==
  CHOOSE i \in Offending(names) : \A j \in Offending(names) : i <= j

\* the error the first offending name calls for, "" when no name offends
ExpectedIncludeError(names) ==
  IF Offending(names) = {} THEN ""
  ELSE IF EndsWithTex(names[FirstOffending(names)]) THEN "INCLUDE_EXTENSION"
  ELSE "INVALID_INCLUDE_PATH"

\* the names declared before the first offending one
ValidatedIncludes(names) ==
  {names[i] : i \in {j \in 1..Len(names) : \A k \in Offending(names) : j < k}}

\* what a call that ran the discovery over the declared names has to show,
\* with the cache as it was before the call
IncludesDiscovered(call, names, before, after) ==
  /\ call.err = ExpectedIncludeError(names)
  /\ call.err # "" => call.arg = names[FirstOffending(names)]
  /\ call.err = "" => call.paths = before \cup ElementsOf(names)
  /\ after = before \cup ValidatedIncludes(names)

\* a get_incpaths call got past the master resolution and found the text of
\* the master not empty
IncludesCalled(call) ==
  /\ call.op = "get_incpaths"
  /\ call.err \notin MasterErrors
  /\ call.master # ""
  /\ ~JoinedIsEmpty(BufferLines(call.master))

NothingReturned ==
  last.entries = <<>> /\ last.labels = <<>> /\ last.paths = {}

\* C17: completions never lets an error escape, whether the current document
\* was never registered, its master cannot be resolved, or the index or
\* provider it dispatched to failed; it returns a list, which is empty
\* whenever the dispatched index raised.
C17_NoErrorEscapes ==
  last.op = "completions" =>
    /\ last.err = ""
    /\ (last.caught # "" => NothingReturned)

\* the substring tests in the order of the claim, each with its provider
ProviderTable ==
  <<[subs |-> {KwCite, KwCapCite}, provider |-> "bibentries"],
    [subs |-> {KwRef}, provider |-> "_labels"],
    [subs |-> {KwFont, KwSetmath}, provider |-> "_fonts"],
    [subs |-> {KwIncludegraphics}, provider |-> "_pics"],
    [subs |-> {KwIncludeonly}, provider |-> "incpaths"]>>

\* the tests that the keyword passes
Matching(kw) ==
  IF kw = None THEN {}
  ELSE {i \in DOMAIN ProviderTable :
          \E sub \in ProviderTable[i].subs : Contains(sub, kw)}

\* the provider of the first test that the keyword passes, "" when none
ExpectedProvider(kw) ==
  IF Matching(kw) = {} THEN ""
  ELSE ProviderTable[CHOOSE i \in Matching(kw) :
                       \A j \in Matching(kw) : i <= j].provider

\* what a provider that returned hands back, where the model has it in the
\* state after the call
ProvidedBy(provider) ==
  CASE provider = "bibentries" -> last'.entries = _bibentries'
    [] provider = "_fonts" -> last'.entries = _fonts(FALSE, TRUE).ret
    [] provider = "_pics" -> last'.entries = _pics.ret
    [] provider = "incpaths" -> last'.paths = _incpaths'
    [] OTHER -> TRUE

\* C18: completions consults exactly one provider, the one of the first
\* substring test that the keyword passes in the order cite/Cite (bibliography
\* entries), ref (labels), font/setmath (fonts), includegraphics (pictures),
\* includeonly (include paths); the other indexes are left alone.  A keyword
\* that passes no test (the empty keyword too) and the keyword None give an
\* empty result and consult nothing.
C18_FirstMatchingProvider ==
  [][last'.op = "completions" =>
       /\ last'.provider = ExpectedProvider(keyword)
       /\ (last'.provider # "bibentries" =>
             UNCHANGED <<_bibpaths, _bibentries>>)
       /\ (last'.provider # "incpaths" => UNCHANGED _incpaths)
       /\ (last'.provider # "_labels" => last'.labels = <<>>)
       /\ (last'.provider \notin {"bibentries", "_fonts", "_pics"} =>
             last'.entries = <<>>)
       /\ (last'.provider # "incpaths" => last'.paths = {})
       /\ (last'.err = "" /\ last'.caught = "" =>
             ProvidedBy(last'.provider))
       /\ (last'.provider = "" =>
             /\ NothingReturned'
             /\ last'.err = "" /\ last'.caught = ""
             /\ UNCHANGED <<buffers, listed>>)]_vars

\* a keyword that passes the tests for cite and for ref got the bibliography
\* entries
C18_Witness ==
  /\ last.op = "completions"
  /\ keyword = KwCite \o KwRef
  /\ last.provider = "bibentries"
  /\ last.entries # <<>>
  /\ last.labels = <<>>

(***************************************************************************)
(* Properties of findstart                                                 *)
(***************************************************************************)
\* the position of the rightmost '{', ',' or '\' of the text, 0 when none
LastMarker(text) ==
  IF \E i \in 1..Len(text) : text[i] \in {"{", ",", "\\"}
  THEN CHOOSE i \in 1..Len(text) :
         /\ text[i] \in {"{", ",", "\\"}
         /\ \A j \in (i + 1)..Len(text) : text[j] \notin {"{", ",", "\\"}
  ELSE 0

\* the text holds a '}' at or after its rightmost marker
ClosedAfterMarker(text) ==
  /\ LastMarker(text) > 0
  /\ \E i \in LastMarker(text)..Len(text) : text[i] = "}"

\* the positions of the backslashes that start a directive name; a backslash
\* that ends the text starts a directive whose name is still empty
Directives(text) ==
  {i \in 1..Len(text) :
     /\ text[i] = "\\"
     /\ (i = Len(text) \/ text[i + 1] \notin NonWord)}

\* the word characters that follow position i
NameAt(text, i) ==
  SubSeq(text, i + 1,
         CHOOSE e \in i..Len(text) :
           /\ \A j \in (i + 1)..e : text[j] \notin NonWord
           /\ (e = Len(text) \/ text[e + 1] \in NonWord))

\* the name of the last directive of the text, None when it has none
LastDirective(text) ==
  IF Directives(text) = {} THEN None
  ELSE NameAt(text, CHOOSE i \in Directives(text) :
                      \A j \in Directives(text) : j <= i)

\* findstart ran on a text with a marker and no '}' at or after it
Completable ==
  /\ last'.op = "findstart"
  /\ LastMarker(current_line) > 0
  /\ ~ClosedAfterMarker(current_line)

\* the labels of OmniMaster and of the c1.tex it includes
OmniLabels ==
  Tagged(<<"eq:1">>, "m.tex") \o Tagged(<<"sec:1">>, "c1.tex")

\* C19: findstart returns as start one past the rightmost '{', ',' or '\' of
\* the text before the cursor (when the text has no '}' at or after that
\* marker) and sets the keyword to the last directive name of that text; on
\* the line "See \ref{eq" the keyword is ref, the start is the offset right
\* after the '{', and the completions that follows returns the labels.
C19_StartAndLastDirective ==
  [][/\ Completable =>
          /\ last'.start = LastMarker(current_line)
          /\ keyword' = LastDirective(current_line)
     /\ last'.op = "findstart" /\ current_line = SeeRefEq =>
          /\ keyword' = KwRef
          /\ last'.start = 9
     /\ /\ last.op = "findstart"
        /\ current_line = SeeRefEq
        /\ last'.op = "completions"
        /\ last'.err = ""
        => last'.labels = OmniLabels]_vars

\* C20: whenever the text before the cursor has a '}' at or after its
\* rightmost '{', ',' or '\', findstart returns -1 and sets the keyword to
\* None, and the completions that follows returns the empty list without
\* consulting an index or a provider.
C20_SuppressedWhenClosed ==
  [][/\ last'.op = "findstart" /\ ClosedAfterMarker(current_line) =>
          /\ last'.start = -1
          /\ keyword' = None
     /\ /\ last.op = "findstart"
        /\ ClosedAfterMarker(current_line)
        /\ last'.op = "completions"
        => /\ last'.provider = ""
           /\ NothingReturned'
           /\ last'.err = "" /\ last'.caught = ""
           /\ UNCHANGED <<buffers, listed, _bibpaths, _bibentries,
                          _incpaths>>]_vars

\* findstart suppressed the completion of a \ref whose argument is closed
C20_Witness ==
  /\ last.op = "findstart"
  /\ ClosedAfterMarker(current_line)
  /\ LastDirective(current_line) = KwRef
  /\ last.start = -1
  /\ keyword = None

\* C21: a completion leaves no keyword behind: once completions has returned
\* the keyword is None again, so a completions call that follows without a
\* new findstart returns the empty list instead of using the keyword of the
\* call before.
C21_KeywordReset ==
  [][/\ last'.op = "completions" => keyword' = None
     /\ last.op = "completions" /\ last'.op = "completions" =>
          last'.provider = "" /\ NothingReturned']_vars

(***************************************************************************)
(* Properties of the modeline lookup                                       *)
(***************************************************************************)
\* the line numbers of a document of n lines that the lookup inspects, in
\* the order it inspects them: the first 3, then the last 3
InspectedOrder(n) ==
  [i \in 1..(IF n < 3 THEN 2 * n ELSE 6) |->
     IF n < 3 THEN (IF i <= n THEN i ELSE i - n)
     ELSE IF i <= 3 THEN i ELSE n - 6 + i]

\* the places of InspectedOrder where the document has a modeline
ModelinesInspected(text) ==
  {i \in DOMAIN InspectedOrder(Len(text)) :
     text[InspectedOrder(Len(text))[i]].kind = "modeline"}

\* the file named by the first modeline inspected
FirstInspected(text) ==
  text[InspectedOrder(Len(text))[
         CHOOSE i \in ModelinesInspected(text) :
           \A j \in ModelinesInspected(text) : i <= j]].args[1]

\* get_master_file looked for the master of d.tex, which has no \documentclass
LookedUp ==
  /\ last.op = "get_master_file"
  /\ last.doc = Dfile
  /\ last.fresh
  /\ \A i \in 1..Len(content[Dfile]) :
       content[Dfile][i].kind # "documentclass"

\* C22: the modeline lookup inspects only the first 3 and the last 3 lines of
\* the document: without a \documentclass and with no modeline in those lines
\* it raises NO_MODELINE, and the first modeline in first-3-then-last-3 order
\* decides: it gives the master when the file exists and INVALID_MODELINE when
\* it does not, whatever a later modeline names.
C22_BoundaryLinesDecide ==
  LookedUp =>
    IF ModelinesInspected(content[Dfile]) = {}
    THEN last.err = "NO_MODELINE"
    ELSE IF FirstInspected(content[Dfile]) = "gone.tex"
    THEN last.err = "INVALID_MODELINE" /\ last.arg = "gone.tex"
    ELSE last.err = "" /\ last.master = Mfile

\* a modeline in line 4 of 7 was not found
C22_Witness ==
  /\ LookedUp
  /\ Len(content[Dfile]) = 7
  /\ content[Dfile][4] = ModelineLine("m.tex")
  /\ last.err = "NO_MODELINE"

\* a modeline naming a missing file in line 2 decided before the modeline in
\* line 6 that names m.tex
C22_WitnessOrder ==
  /\ LookedUp
  /\ Len(content[Dfile]) = 7
  /\ content[Dfile][2] = ModelineLine("gone.tex")
  /\ content[Dfile][6] = ModelineLine("m.tex")
  /\ last.err = "INVALID_MODELINE"

(***************************************************************************)
(* Properties of a failed master resolution                                *)
(***************************************************************************)
\* the text names a master: it has a \documentclass, or the first modeline
\* of its boundary lines names a file that exists
NamesMaster(name) ==
  \/ ContainsDocumentclass(content[name])
  \/ /\ BoundaryModelines(content[name]) # {}
     /\ AbsPath(name, NamedByModeline(content[name])) \in TexOnDisk

\* C23: when get_master_file or a method under multi_file raises
\* INVALID_MODELINE or NO_MODELINE the registry is left as it was: the
\* document's master reference stays unresolved, no document is added and no
\* entry is modified; a later call on a document whose reference is
\* unresolved inspects the text the document has then, and succeeds once the
\* text has a valid modeline or a \documentclass.
C23_FailedResolutionLeavesRegistry ==
  [][last'.op \in {"get_master_file", "get_master_output"} =>
       /\ last'.err \in {"NO_MODELINE", "INVALID_MODELINE"} =>
            /\ buffers' = buffers
            /\ listed' = listed
            /\ buffers[last'.doc].master = ""
       /\ (/\ last'.doc \in DOMAIN buffers
           /\ buffers[last'.doc].master = "")
            => (last'.err \in {"NO_MODELINE", "INVALID_MODELINE"}
                  <=> ~NamesMaster(last'.doc))]_vars

\* the resolution of d.tex failed while m.tex is registered and resolved:
\* d.tex is still unresolved
C23_Witness ==
  /\ last.op = "get_master_file"
  /\ last.doc = Dfile
  /\ last.err = "INVALID_MODELINE"
  /\ buffers[Dfile].master = ""
  /\ Mfile \in DOMAIN buffers
  /\ buffers[Mfile].master # ""

(***************************************************************************)
(* Properties of the files that cannot be read                             *)
(***************************************************************************)
\* C24: in _labels an included or input file that cannot be read is skipped
\* without raising: the call returns the labels of the master and of every
\* included file that can be read, in the usual order, and nothing for the
\* file that cannot.
C24_UnreadableIncludeSkipped ==
  (/\ last.op = "_labels"
   /\ last.err \notin MasterErrors \cup {"MASTER_NOT_ACTIVE"}
   /\ IncludedFiles(BufferLines(last.master)) \ ChaptersOnDisk # {})
    => /\ last.err = ""
       /\ last.labels
            = Tagged(Args(SelectSeq(BufferLines(last.master), IsLabel)),
                     Basename(last.master))
                \o LabelsOfIncluded(BufferLines(last.master))

\* the entries of a path: none when the file cannot be read
EntriesOf(p) == IF p \in bibfiles THEN FindEntries(BibText(p)) ELSE <<>>

RECURSIVE EntriesOfAll(_)
EntriesOfAll(bibpaths) ==
  IF bibpaths = <<>> THEN <<>>
  ELSE EntriesOf(Head(bibpaths)) \o EntriesOfAll(Tail(bibpaths))

\* the errors of the discovery of the paths
DiscoveryErrors == MasterErrors \cup {"MASTER_NOT_ACTIVE", "INVALID_BIBFILE"}

\* C25: in get_bibentries a path of the path set that cannot be read raises
\* nothing and contributes no entries, and the entries of every other path
\* of the set are returned.
C25_UnreadableBibSkipped ==
  [][(/\ last'.op = "get_bibentries"
      /\ _bibentries = <<>>
      /\ last'.err \notin DiscoveryErrors)
       => /\ last'.err = ""
          /\ \E bibpaths \in ListsOf(last'.paths) :
               last'.entries = EntriesOfAll(bibpaths)]_vars

\* /tds/extra.bib was removed after its path was cached: the entries of
\* /tds/refs.bib alone are returned
C25_Witness ==
  /\ last.op = "get_bibentries"
  /\ last.err = ""
  /\ last.paths = {TdsRefs, TdsExtra}
  /\ TdsExtra \notin bibfiles
  /\ last.entries = <<"knuth84", "lamport94">>

(***************************************************************************)
(* Properties of the discovery of the bibliography paths                   *)
(***************************************************************************)
\* the names of the directive with their extension
DeclaredBibNames(lines) ==
  {WithBibExtension(FirstBibliography(lines)[i]) :
     i \in 1..Len(FirstBibliography(lines))}

\* get_bibpaths went through the names of the master's directive
Discovered ==
  /\ last.op = "get_bibpaths"
  /\ last.read
  /\ last.err \in {"", "INVALID_BIBFILE"}
  /\ BibliographyMatches(BufferLines(last.master)) # {}

\* C26: for each declared name the discovery appends .bib when it is absent,
\* takes the file of that name in the directory of the master when it exists,
\* without kpsewhich having a say, and asks kpsewhich for the name only
\* otherwise; when kpsewhich finds nothing get_bibpaths raises
\* INVALID_BIBFILE with that name.
C26_LocalFileBeforeKpsewhich ==
  Discovered =>
    /\ \A b \in DeclaredBibNames(BufferLines(last.master)) :
         InMasterDir(b) \in bibfiles =>
           /\ InMasterDir(b) \notin last.asked
           /\ last.err = "" => InMasterDir(b) \in last.paths
    /\ last.asked \subseteq DeclaredBibNames(BufferLines(last.master))
    /\ last.err = "INVALID_BIBFILE" =>
         /\ last.arg \in DeclaredBibNames(BufferLines(last.master))
         /\ InMasterDir(last.arg) \notin bibfiles

\* C27: a discovery that fails is atomic for the cache: when get_bibpaths
\* raises INVALID_BIBFILE for one declared name, no path resolved earlier in
\* the same call is left in the path cache, so the call without update that
\* follows on the same master and files fails again instead of returning a
\* partial set.
C27_FailedDiscoveryLeavesCache ==
  [][/\ (last'.op = "get_bibpaths" /\ last'.err = "INVALID_BIBFILE")
          => _bibpaths' \subseteq _bibpaths
     /\ (/\ last.op = "get_bibpaths" /\ last.err = "INVALID_BIBFILE"
         /\ last'.op = "get_bibpaths" /\ ~last'.update
         /\ last'.doc = last.doc)
          => last'.err = "INVALID_BIBFILE"]_vars

\* the names of every bibliography directive of the text
AllDeclaredBibNames(lines) ==
  UNION {{WithBibExtension(lines[i].args[j]) : j \in 1..Len(lines[i].args)} :
           i \in BibliographyMatches(lines)}

\* C28: every name declared in any \bibliography or \addbibresource
\* directive of the master is resolved into the path set: with two or more
\* directives the names of the second and later ones are in the result of
\* get_bibpaths.
C28_EveryDirectiveResolved ==
  (/\ last.op = "get_bibpaths"
   /\ last.read
   /\ last.err = "")
    => \A b \in AllDeclaredBibNames(BufferLines(last.master)) :
         \E p \in last.paths :
           p \in {InMasterDir(b),
                  IF b = "refs.bib" THEN TdsRefs ELSE TdsExtra}

(***************************************************************************)
(* Properties of a refresh of the include index                            *)
(***************************************************************************)
\* C29: get_incpaths with update set, also when TeXSevenOmni.update calls
\* it, returns exactly the names that the \include lines of the master
\* declare now: a name cached earlier and since removed from the master is
\* not returned, also when the master declares no include any more.
C29_RefreshGivesDeclaredIncludes ==
  (/\ last.op \in {"get_incpaths", "omni_update"}
   /\ last.update /\ last.err = "")
    => last.paths = ElementsOf(DeclaredIncludes(BufferLines(last.master)))

(***************************************************************************)
(* Properties of the registry over a whole session                         *)
(***************************************************************************)
\* C30: the registry only grows: whatever add_buffer, get_master_file, the
\* methods under multi_file, update and completions do, no name is removed
\* from the registry and the buffer stored for a name is not replaced.
C30_RegistryOnlyGrows ==
  [][\A n \in DOMAIN buffers :
       /\ n \in DOMAIN buffers'
       /\ buffers'[n].buffer = buffers[n].buffer
       /\ buffers'[n].ft = buffers[n].ft]_vars

\* completions for d.tex registered m.tex, next to d.tex and x.tex
C30_Witness ==
  /\ last.op = "completions"
  /\ last.doc = Dfile
  /\ last.badd
  /\ DOMAIN buffers = Docs

(***************************************************************************)
(* Properties of what findstart returns together with the keyword          *)
(***************************************************************************)
\* C31: after every findstart call, whatever the text before the cursor
\* (the empty text of column 0 and a text without '{', ',' or '\' too), a
\* returned start of -1 implies that the keyword is None, never a directive
\* name or the empty string, and an empty keyword implies that the returned
\* start is the cursor column.
C31_StartAndKeywordAgree ==
  last.op = "findstart" =>
    /\ last.start = -1 => keyword = None
    /\ keyword = <<>> => last.start = Len(current_line)

\* a backslash typed after \ref} : the keyword is empty and the start is the
\* cursor column
C31_Witness ==
  /\ last.op = "findstart"
  /\ current_line = Cmd(KwRef) \o <<"}", "\\">>
  /\ keyword = <<>>
  /\ last.start = 6

\* findstart on the empty text of column 0 and on a text without a marker
C31_WitnessNoMarker ==
  /\ last.op = "findstart"
  /\ current_line \in {<<>>, <<"e", "q">>}
  /\ last.start = -1
  /\ keyword = None

====
